---- MODULE Spec2Model ----
(***************************************************************************)
(* gled: Logitech G102/G203 LED control (src/gled.go).                     *)
(*                                                                         *)
(* One run of the program is modelled: the command line is fixed in Init,  *)
(* main dispatches on the mode, the mode's setter parses its arguments,    *)
(* sendCommand builds the payload and drives the USB library.  Go strings  *)
(* are sequences of one-character strings, so that strconv.Atoi,           *)
(* fmt.Sscanf, fmt.Sprintf and hex.DecodeString are computed character by  *)
(* character the way the library computes them.  log.Fatal/log.Fatalf end  *)
(* the process with os.Exit(1): the deferred calls do not run.  A panic    *)
(* unwinds the deferred calls and ends the process with status 2.          *)
(***************************************************************************)
EXTENDS Integers, Sequences, FiniteSets, TLC

\* ------------------------------------------------------------ bounds

\* Decimal arguments are generated for the integers within Probe of each
\* boundary of interest (range limits, hex digit carries).
Probe == 2

\* Color arguments are all strings over ColorAlphabet of at most this length.
MaxColorLen == 6

\* ------------------------------------------------------------ constants

defaultRate == 10000

defaultBrightness == 100

\* format = "11ff0e%s000000000000": the text before and after the %s
formatHead == <<"1","1","f","f","0","e">>

formatTail == <<"0","0","0","0","0","0","0","0","0","0","0","0">>

\* ------------------------------------------------------------ characters

decimalDigits == <<"0","1","2","3","4","5","6","7","8","9">>

ldigits == <<"0","1","2","3","4","5","6","7","8","9","a","b","c","d","e","f">>

udigits == <<"0","1","2","3","4","5","6","7","8","9","A","B","C","D","E","F">>

Range(s) == { s[i] : i \in 1..Len(s) }

\* fmt/scan.go hexadecimalDigits = "0123456789aAbBcCdDeEfF"
hexadecimalDigits == Range(ldigits) \cup Range(udigits)

isSpace(ch) == ch = " "

\* the value of one hexadecimal digit (strconv.ParseUint base 16, hex.fromHexChar)
fromHexChar(ch) ==
  (CHOOSE i \in 1..16 : ldigits[i] = ch \/ udigits[i] = ch) - 1

fromDecChar(ch) == (CHOOSE i \in 1..10 : decimalDigits[i] = ch) - 1

Min(a, b) == IF a < b THEN a ELSE b

\* ------------------------------------------------------------ strconv, fmt, hex

\* strconv.ParseUint(tok, 16, 64) of a token of hexadecimal digits
RECURSIVE ParseUintHex(_)
ParseUintHex(tok) ==
  IF tok = <<>> THEN 0
  ELSE 16 * ParseUintHex(SubSeq(tok, 1, Len(tok) - 1)) + fromHexChar(tok[Len(tok)])

\* the decimal value of a token of decimal digits
RECURSIVE ParseDec(_)
ParseDec(tok) ==
  IF tok = <<>> THEN 0
  ELSE 10 * ParseDec(SubSeq(tok, 1, Len(tok) - 1)) + fromDecChar(tok[Len(tok)])

\* the digits of tok after its leading zeros
RECURSIVE StripZeros(_)
StripZeros(tok) ==
  IF tok # <<>> /\ tok[1] = "0" THEN StripZeros(Tail(tok)) ELSE tok

\* Atoi of the digits after the sign
AtoiDigits(neg, digits) ==
  IF digits = <<>> \/ \E i \in 1..Len(digits) : digits[i] \notin Range(decimalDigits)
    THEN [err |-> TRUE, val |-> 0]
  ELSE IF Len(StripZeros(digits)) > 19
    THEN [err |-> TRUE, val |-> 0]
  ELSE [err |-> FALSE, val |-> IF neg THEN 0 - ParseDec(digits) ELSE ParseDec(digits)]

\* strconv.Atoi(s): an optional sign, then one or more decimal digits and
\* nothing else; a value outside the 64-bit range is an error.  More than
\* 19 significant digits are always out of range; the arguments of the model
\* have at most 9 or more than 19, so the value fits TLC's integers.
Atoi(s) ==
  IF s # <<>> /\ s[1] \in {"+", "-"} THEN AtoiDigits(s[1] = "-", Tail(s))
  ELSE AtoiDigits(FALSE, s)

\* strconv.FormatUint(v, 16): lowercase digits, no padding
RECURSIVE FormatHex(_)
FormatHex(v) ==
  IF v < 16 THEN << ldigits[v + 1] >>
  ELSE FormatHex(v \div 16) \o << ldigits[(v % 16) + 1] >>

RECURSIVE Zeros(_)
Zeros(n) == IF n <= 0 THEN <<>> ELSE <<"0">> \o Zeros(n - 1)

\* digits d padded with zeros on the left to width wid
PadZeros(wid, d) == Zeros(wid - Len(d)) \o d

\* fmt.Sprintf("%0<wid>x", v): wid is a minimum width, the sign counts in it
SprintfHex(wid, v) ==
  IF v < 0 THEN <<"-">> \o PadZeros(wid - 1, FormatHex(0 - v))
  ELSE PadZeros(wid, FormatHex(v))

\* hex.DecodeString(s) succeeds: an even number of hexadecimal digits
DecodeStringOk(s) ==
  /\ Len(s) % 2 = 0
  /\ \A i \in 1..Len(s) : s[i] \in hexadecimalDigits

\* hex.DecodeString(s): the bytes
DecodeString(s) ==
  [ i \in 1..(Len(s) \div 2) |-> 16 * fromHexChar(s[2*i - 1]) + fromHexChar(s[2*i]) ]

\* ------------------------------------------------------------ fmt.Sscanf

\* ss.SkipSpace from position pos: the first position that holds no space
SkipSpace(s, pos) ==
  IF \E i \in pos..Len(s) : ~isSpace(s[i])
    THEN CHOOSE i \in pos..Len(s) :
           ~isSpace(s[i]) /\ \A j \in pos..(i - 1) : isSpace(s[j])
    ELSE Len(s) + 1

\* ss.scanNumber from p, reading below lim: the position after the digits
scanNumber(s, p, lim) ==
  IF p >= lim THEN p
  ELSE CHOOSE e \in p..lim :
         /\ \A j \in p..(e - 1) : s[j] \in hexadecimalDigits
         /\ e = lim \/ s[e] \notin hexadecimalDigits

\* scanUint's result for the token s[p..e-1]: no input left, no digit, a value
\* that does not fit uint8, or the value
scanToken(s, p, e) ==
  IF p > Len(s) THEN [err |-> TRUE, val |-> 0, next |-> p]
  ELSE IF e = p THEN [err |-> TRUE, val |-> 0, next |-> p]
  ELSE IF ParseUintHex(SubSeq(s, p, e - 1)) > 255 THEN [err |-> TRUE, val |-> 0, next |-> e]
  ELSE [err |-> FALSE, val |-> ParseUintHex(SubSeq(s, p, e - 1)), next |-> e]

\* the verb's token starts at p: the width counts from there (argLimit)
scanFrom(s, p, wid) == scanToken(s, p, scanNumber(s, p, Min(p + wid, Len(s) + 1)))

\* One %<wid>x verb into a *uint8, the input read from position pos: doScanf
\* skips spaces, scanUint reads the digits that follow, at least one and at
\* most wid, and stops at the first other character.
scanUint(s, pos, wid) == scanFrom(s, SkipSpace(s, pos), wid)

\* Sscanf after the three verbs r, g, b: a verb that fails leaves its channel
\* and the later ones at 0; input left over after the third verb is not an error
ScanRGB(r, g, b) ==
  IF r.err THEN [err |-> TRUE, R |-> 0, G |-> 0, B |-> 0]
  ELSE IF g.err THEN [err |-> TRUE, R |-> r.val, G |-> 0, B |-> 0]
  ELSE IF b.err THEN [err |-> TRUE, R |-> r.val, G |-> g.val, B |-> 0]
  ELSE [err |-> FALSE, R |-> r.val, G |-> g.val, B |-> b.val]

ScanGB(s, wid, r, g) == ScanRGB(r, g, scanUint(s, g.next, wid))

ScanR(s, wid, r) == ScanGB(s, wid, r, scanUint(s, r.next, wid))

\* fmt.Sscanf(s, "#%<wid>x%<wid>x%<wid>x", &c.R, &c.G, &c.B): the literal #,
\* then the three verbs, each from where the one before stopped
Sscanf(s, wid) ==
  IF s = <<>> \/ s[1] # "#" THEN [err |-> TRUE, R |-> 0, G |-> 0, B |-> 0]
  ELSE ScanR(s, wid, scanUint(s, 2, wid))

\* ------------------------------------------------------------ argument parsers

\* c.R *= 17; c.G *= 17; c.B *= 17 on uint8 channels: the product wraps at 256
Double(col) ==
  [err |-> col.err, R |-> (col.R * 17) % 256, G |-> (col.G * 17) % 256,
   B |-> (col.B * 17) % 256]

\* parseHexColor
parseHexColor(s) ==
  CASE Len(s) = 7 -> Sscanf(s, 2)
    [] Len(s) = 4 -> Double(Sscanf(s, 1))
    [] OTHER -> [err |-> TRUE, R |-> 0, G |-> 0, B |-> 0]

\* fmt.Sprintf("%02x%02x%02x", c.R, c.G, c.B)
SprintfColor(col) == SprintfHex(2, col.R) \o SprintfHex(2, col.G) \o SprintfHex(2, col.B)

\* parseColor after parseHexColor returned col
ColorResult(col) ==
  IF col.err THEN [ok |-> FALSE, val |-> <<>>, msg |-> "Error parsing color argument"]
  ELSE [ok |-> TRUE, msg |-> "", val |-> SprintfColor(col)]

\* parseColor: ok with the 6 digits, or the fatal message
parseColor(colorArg) ==
  IF colorArg = <<>> THEN [ok |-> FALSE, val |-> <<>>, msg |-> "No color argument found"]
  ELSE IF colorArg[1] = "#" THEN ColorResult(parseHexColor(colorArg))
  ELSE ColorResult(parseHexColor(<<"#">> \o colorArg))

\* mutant: the limits themselves excluded
RateInRangeExclusive(rate) == ~(rate <= 100 \/ rate >= 60000)

\* the range check of parseRate
RateInRange(rate) == ~(rate < 100 \/ rate > 60000)

\* parseRate after strconv.Atoi returned a
RateResult(a) ==
  IF a.err THEN [ok |-> FALSE, val |-> <<>>, msg |-> "Error parsing rate argument"]
  ELSE IF ~RateInRange(a.val)
    THEN [ok |-> FALSE, val |-> <<>>, msg |-> "Rate argument is out of range"]
  ELSE [ok |-> TRUE, msg |-> "", val |-> SprintfHex(4, a.val)]

\* parseRate
parseRate(rateArg) ==
  IF rateArg = <<>> THEN [ok |-> TRUE, msg |-> "", val |-> SprintfHex(4, defaultRate)]
  ELSE RateResult(Atoi(rateArg))

\* mutant: the lower limit of the usage text, 0
BrightnessFromZero(brightness) == ~(brightness < 0 \/ brightness > 100)

\* the range check of parseBrightness
BrightnessInRange(brightness) == ~(brightness < 1 \/ brightness > 100)

\* parseBrightness after strconv.Atoi returned a
BrightnessResult(a) ==
  IF a.err THEN [ok |-> FALSE, val |-> <<>>, msg |-> "Error parsing brightness argument"]
  ELSE IF ~BrightnessInRange(a.val)
    THEN [ok |-> FALSE, val |-> <<>>, msg |-> "Brightness argument is out of range"]
  ELSE [ok |-> TRUE, msg |-> "", val |-> SprintfHex(2, a.val)]

\* parseBrightness
parseBrightness(brightnessArg) ==
  IF brightnessArg = <<>>
    THEN [ok |-> TRUE, msg |-> "", val |-> SprintfHex(2, defaultBrightness)]
  ELSE BrightnessResult(Atoi(brightnessArg))

\* mutant: the spellings ON and OFF accepted too
parseToggleAnyCase(toggleArg) ==
  CASE toggleArg \in {<<"o","n">>, <<"O","N">>} -> [ok |-> TRUE, msg |-> "", val |-> <<"0","1">>]
    [] toggleArg \in {<<"o","f","f">>, <<"O","F","F">>} ->
         [ok |-> TRUE, msg |-> "", val |-> <<"0","2">>]
    [] OTHER -> [ok |-> FALSE, val |-> <<>>, msg |-> "Error parsing toggle argument"]

\* parseToggle
parseToggle(toggleArg) ==
  CASE toggleArg = <<"o","n">> -> [ok |-> TRUE, msg |-> "", val |-> <<"0","1">>]
    [] toggleArg = <<"o","f","f">> -> [ok |-> TRUE, msg |-> "", val |-> <<"0","2">>]
    [] OTHER -> [ok |-> FALSE, val |-> <<>>, msg |-> "Error parsing toggle argument"]

\* ------------------------------------------------------------ command lines

\* strconv.Itoa, used to write the decimal arguments of the command lines
RECURSIVE Itoa(_)
Itoa(n) ==
  IF n < 0 THEN <<"-">> \o Itoa(0 - n)
  ELSE IF n < 10 THEN << decimalDigits[n + 1] >>
  ELSE Itoa(n \div 10) \o << decimalDigits[(n % 10) + 1] >>

Around(b) == (b - Probe)..(b + Probe)

TwentyNines == [ i \in 1..20 |-> "9" ]

\* integers given as <rate>: around the range limits and the hex digit carries
RateInts == UNION { Around(b) : b \in {0, 100, 256, 4096, 10000, 60000, 65536} }

\* <rate> arguments that are not the plain decimal form of an integer
RateOddArgs ==
  { <<>>, <<"+","1","0","0">>, <<"-","1","0","0">>, <<"0","1","0","0">>,
    <<"1","e","3">>, <<"a","b","c">>, <<"1","0","0"," ">>, <<" ","1","0","0">>,
    <<"0","x","6","4">>, <<"1","_","0","0","0">>, <<"1","0","0",".","0">>,
    <<"+">>, <<"-">>, TwentyNines }

RateArgs == { Itoa(n) : n \in RateInts } \cup RateOddArgs

\* integers given as <brightness>
BrightnessInts == UNION { Around(b) : b \in {0, 16, 50, 100, 256} }

BrightnessOddArgs ==
  { <<>>, <<"+","5","0">>, <<"0","5","0">>, <<"-","0">>, <<"a","b","c">>,
    <<"5"," ","0">>, <<"0","x","3","2">>, <<"1","e","1">>, <<"5","0","%">>,
    <<"+">>, TwentyNines }

BrightnessArgs == { Itoa(n) : n \in BrightnessInts } \cup BrightnessOddArgs

ColorAlphabet == {"#", "f", "g", " "}

\* every string over ColorAlphabet of at most MaxColorLen characters
ColorStrings == UNION { [ 1..n -> ColorAlphabet ] : n \in 0..MaxColorLen }

ColorSamples ==
  { <<>>, <<"f","f","0","0","0","0">>, <<"f","0","0">>, <<"#","f","0","0">>,
    <<"F","F","0","0","0","0">>, <<"#","1","A","2","b","3","C">>,
    <<"0","9","a">>, <<"1","2","3","4","5","z">>, <<"1"," ","2"," ","3"," ">>,
    <<"f","f","f","f","f">>, <<"g","g","g">>, <<"0","1","2","3","4","5","6">>,
    <<"#","#","f","f","f">>, <<"f","f","0","0","0","0","#">>,
    <<"A","b","C">>, <<"#","F","f","A">>, <<"a","B","c","D","e","F">>,
    <<"F","F","F","F","F","G">>, <<"#","f","f","f","f","f"," ">> }

ToggleArgs ==
  { <<"o","n">>, <<"o","f","f">>, <<>>, <<"O","N">>, <<"O","n">>, <<"O","F","F">>,
    <<"m","a","y","b","e">>, <<"o","n"," ">>, <<" ","o","f","f">>, <<"1">>,
    <<"0","1">>, <<"t","r","u","e">> }

Modes == {"solid", "cycle", "breathe", "intro"}

UnknownModes == {"", "Solid", "blink", "on"}

\* ------------------------------------------------------------ state

VARIABLES
  mode,        \* flag.Arg(0)
  args,        \* flag.Arg(1), flag.Arg(2), flag.Arg(3); a missing one is ""
  pc,          \* where the run is
  c,           \* setSolid/setBreathe: the parsed color
  rate,        \* setCycle/setBreathe: the parsed rate
  brightness,  \* setCycle/setBreathe: the parsed brightness
  toggle,      \* setIntro: the parsed toggle
  data,        \* sendCommand's argument
  fullData,    \* sendCommand: the hex string
  payload,     \* sendCommand: the decoded bytes
  ctx,         \* the gousb context: "none", "open", "closed"
  dev,         \* the device handle: "none", "nil", "open", "closed"
  intf,        \* the default interface: "none", "claimed", "released"
  defers,      \* sendCommand's deferred calls, the last pushed last
  ops,         \* the calls made into the USB library, in order
  sent,        \* the payloads of the control transfers that succeeded
  usage,       \* flag.Usage() was called
  fatalMsg,    \* the message of log.Fatal/log.Fatalf
  exit         \* the exit status, -1 while the process runs

vars == << mode, args, pc, c, rate, brightness, toggle, data, fullData, payload,
           ctx, dev, intf, defers, ops, sent, usage, fatalMsg, exit >>

fields == << c, rate, brightness, toggle, data >>

usb == << ctx, dev, intf, defers, ops, sent >>

Init ==
  /\ \/ mode = "solid" /\ \E col \in ColorStrings \cup ColorSamples :
          args = << col, <<>>, <<>> >>
     \/ mode = "cycle" /\ \E r \in RateArgs, b \in BrightnessArgs :
          args = << r, b, <<>> >>
     \/ mode = "breathe" /\ \E col \in ColorSamples, r \in RateArgs, b \in BrightnessArgs :
          args = << col, r, b >>
     \/ mode = "intro" /\ \E t \in ToggleArgs : args = << t, <<>>, <<>> >>
     \/ mode \in UnknownModes /\ \E t \in ToggleArgs : args = << t, <<>>, <<>> >>
  /\ pc = "main"
  /\ c = <<>> /\ rate = <<>> /\ brightness = <<>> /\ toggle = <<>>
  /\ data = <<>> /\ fullData = <<>> /\ payload = <<>>
  /\ ctx = "none" /\ dev = "none" /\ intf = "none"
  /\ defers = <<>> /\ ops = <<>> /\ sent = <<>>
  /\ usage = FALSE /\ fatalMsg = "" /\ exit = -1

\* log.Fatalf(msg): the message, then os.Exit(1); no deferred call runs
Fatalf(msg) ==
  /\ pc' = "exited"
  /\ fatalMsg' = msg
  /\ exit' = 1

\* ------------------------------------------------------------ main and the setters

\* the mode main's switch selects, "" for the default branch
Dispatch(m) ==
  CASE m = "solid" -> "setSolid"
    [] m = "cycle" -> "setCycle"
    [] m = "breathe" -> "setBreathe"
    [] m = "intro" -> "setIntro"
    [] OTHER -> ""

Main ==
  /\ pc = "main"
  /\ IF Dispatch(mode) # ""
       THEN pc' = Dispatch(mode) /\ UNCHANGED << usage, fatalMsg, exit >>
       ELSE usage' = TRUE /\ Fatalf("Unknown mode")
  /\ UNCHANGED << mode, args, fields, fullData, payload, usb >>

\* the bodies the setters hand to sendCommand
IntroBody(t) == <<"5","b","0","0","0","1">> \o t \o Zeros(14)

\* mutant: the padding two digits short
SolidBodyShort(col) == <<"3","b","0","0","0","1">> \o col \o Zeros(8)

SolidBody(col) == <<"3","b","0","0","0","1">> \o col \o Zeros(10)

\* mutant: brightness before rate
CycleBodySwapped(r, b) == <<"3","b","0","0","0","2">> \o Zeros(10) \o b \o r

CycleBody(r, b) == <<"3","b","0","0","0","2">> \o Zeros(10) \o r \o b

BreatheBody(col, r, b) ==
  <<"3","b","0","0","0","3">> \o col \o r \o <<"0","0">> \o b \o <<"0","0">>

SetIntro ==
  /\ pc = "setIntro"
  /\ \E t \in {parseToggle(args[1])} :
         IF t.ok
           THEN /\ toggle' = t.val
                /\ data' = IntroBody(t.val)
                /\ pc' = "sendCommand"
                /\ UNCHANGED << usage, fatalMsg, exit >>
           ELSE /\ usage' = TRUE
                /\ Fatalf(t.msg)
                /\ UNCHANGED << toggle, data >>
  /\ UNCHANGED << mode, args, c, rate, brightness, fullData, payload, usb >>

SetSolid ==
  /\ pc = "setSolid"
  /\ \E col \in {parseColor(args[1])} :
         IF col.ok
           THEN /\ c' = col.val
                /\ data' = SolidBody(col.val)
                /\ pc' = "sendCommand"
                /\ UNCHANGED << usage, fatalMsg, exit >>
           ELSE /\ usage' = TRUE
                /\ Fatalf(col.msg)
                /\ UNCHANGED << c, data >>
  /\ UNCHANGED << mode, args, rate, brightness, toggle, fullData, payload, usb >>

SetCycle ==
  /\ pc = "setCycle"
  /\ \E r \in {parseRate(args[1])}, b \in {parseBrightness(args[2])} :
         IF ~r.ok
           THEN /\ usage' = TRUE
                /\ Fatalf(r.msg)
                /\ UNCHANGED << rate, brightness, data >>
         ELSE IF ~b.ok
           THEN /\ rate' = r.val
                /\ usage' = TRUE
                /\ Fatalf(b.msg)
                /\ UNCHANGED << brightness, data >>
         ELSE /\ rate' = r.val
              /\ brightness' = b.val
              /\ data' = CycleBody(r.val, b.val)
              /\ pc' = "sendCommand"
              /\ UNCHANGED << usage, fatalMsg, exit >>
  /\ UNCHANGED << mode, args, c, toggle, fullData, payload, usb >>

SetBreathe ==
  /\ pc = "setBreathe"
  /\ \E col \in {parseColor(args[1])}, r \in {parseRate(args[2])},
         b \in {parseBrightness(args[3])} :
         IF ~col.ok
           THEN /\ usage' = TRUE
                /\ Fatalf(col.msg)
                /\ UNCHANGED << c, rate, brightness, data >>
         ELSE IF ~r.ok
           THEN /\ c' = col.val
                /\ usage' = TRUE
                /\ Fatalf(r.msg)
                /\ UNCHANGED << rate, brightness, data >>
         ELSE IF ~b.ok
           THEN /\ c' = col.val
                /\ rate' = r.val
                /\ usage' = TRUE
                /\ Fatalf(b.msg)
                /\ UNCHANGED << brightness, data >>
         ELSE /\ c' = col.val
              /\ rate' = r.val
              /\ brightness' = b.val
              /\ data' = BreatheBody(col.val, r.val, b.val)
              /\ pc' = "sendCommand"
              /\ UNCHANGED << usage, fatalMsg, exit >>
  /\ UNCHANGED << mode, args, toggle, fullData, payload, usb >>
\* ------------------------------------------------------------ sendCommand

\* fmt.Sprintf(format, data)
FullData(d) == formatHead \o d \o formatTail

\* sendCommand up to the context: the hex string, its bytes, gousb.NewContext(),
\* defer ctx.Close()
SendCommand ==
  /\ pc = "sendCommand"
  /\ fullData' = FullData(data)
  /\ IF ~DecodeStringOk(FullData(data))
       THEN /\ Fatalf("Error converting data from hex string")
            /\ UNCHANGED << payload, usb >>
       ELSE /\ payload' = DecodeString(FullData(data))
            /\ ctx' = "open"
            /\ defers' = Append(defers, "ctx.Close")
            /\ ops' = Append(ops, "NewContext")
            /\ pc' = "OpenDevice"
            /\ UNCHANGED << dev, intf, sent, fatalMsg, exit >>
  /\ UNCHANGED << mode, args, fields, usage >>

\* What ctx.OpenDeviceWithVIDPID can return: a device, an error with no device,
\* or neither (no device matches: a nil device and a nil error).
OpenOutcomes == {"device", "error", "none"}

\* dev, err := ctx.OpenDeviceWithVIDPID(...); defer dev.Close(); defer dev.Reset()
OpenDevice ==
  /\ pc = "OpenDevice"
  /\ ops' = Append(ops, "OpenDeviceWithVIDPID")
  /\ \E out \in OpenOutcomes :
       /\ dev' = IF out = "device" THEN "open" ELSE "nil"
       /\ IF out = "error"
            THEN Fatalf("Error open device") /\ UNCHANGED defers
            ELSE /\ defers' = defers \o <<"dev.Close", "dev.Reset">>
                 /\ pc' = "SetAutoDetach"
                 /\ UNCHANGED << fatalMsg, exit >>
  /\ UNCHANGED << mode, args, fields, fullData, payload, ctx, intf, sent, usage >>

\* dev.SetAutoDetach(true); on a nil device the method dereferences nil and
\* panics before it reaches the library
SetAutoDetach ==
  /\ pc = "SetAutoDetach"
  /\ IF dev = "nil"
       THEN pc' = "panicking" /\ UNCHANGED << ops, fatalMsg, exit >>
       ELSE /\ ops' = Append(ops, "SetAutoDetach")
            /\ \E ok \in BOOLEAN :
                 IF ok THEN pc' = "DefaultInterface" /\ UNCHANGED << fatalMsg, exit >>
                 ELSE Fatalf("Error set auto detach kernel for device")
  /\ UNCHANGED << mode, args, fields, fullData, payload, ctx, dev, intf, defers,
                  sent, usage >>

\* _, done, err := dev.DefaultInterface(); defer done()
DefaultInterface ==
  /\ pc = "DefaultInterface"
  /\ ops' = Append(ops, "DefaultInterface")
  /\ \E ok \in BOOLEAN :
       IF ok
         THEN /\ intf' = "claimed"
              /\ defers' = Append(defers, "done")
              /\ pc' = "Control"
              /\ UNCHANGED << fatalMsg, exit >>
         ELSE /\ Fatalf("Error claim default interface")
              /\ UNCHANGED << intf, defers >>
  /\ UNCHANGED << mode, args, fields, fullData, payload, ctx, dev, sent, usage >>

\* mutant: a failed transfer is tried again
ControlRetry ==
  /\ pc = "Control"
  /\ ops' = Append(ops, "Control")
  /\ \E ok \in BOOLEAN :
       IF ok
         THEN /\ sent' = Append(sent, [requestType |-> 33, request |-> 9,
                                       value |-> 529, index |-> 1, data |-> payload])
              /\ pc' = "returning"
         ELSE UNCHANGED << sent, pc >>
  /\ UNCHANGED << mode, args, fields, fullData, payload, ctx, dev, intf, defers,
                  usage, fatalMsg, exit >>

\* n, err := dev.Control(0x21, 0x09, 0x0211, 0x01, payload)
\* (0x21 = 33, 0x09 = 9, 0x0211 = 529, 0x01 = 1)
Control ==
  /\ pc = "Control"
  /\ ops' = Append(ops, "Control")
  /\ \E ok \in BOOLEAN :
       IF ok
         THEN /\ sent' = Append(sent, [requestType |-> 33, request |-> 9,
                                       value |-> 529, index |-> 1, data |-> payload])
              /\ pc' = "returning"
              /\ UNCHANGED << fatalMsg, exit >>
         ELSE /\ Fatalf("Error sending control data")
              /\ UNCHANGED sent
  /\ UNCHANGED << mode, args, fields, fullData, payload, ctx, dev, intf, defers,
                  usage >>

\* The deferred calls run last pushed first, when sendCommand returns or
\* panics.  dev.Reset() and dev.Close() on a nil device panic in turn, and the
\* calls below them still run.
RunDeferred ==
  /\ pc \in {"returning", "panicking"}
  /\ defers # <<>>
  /\ LET call == defers[Len(defers)]
     IN  /\ defers' = SubSeq(defers, 1, Len(defers) - 1)
         /\ CASE call = "done" ->
                   /\ intf' = "released"
                   /\ ops' = Append(ops, "done")
                   /\ UNCHANGED << pc, dev, ctx >>
              [] call = "dev.Reset" ->
                   IF dev = "nil"
                     THEN pc' = "panicking" /\ UNCHANGED << ops, dev, ctx, intf >>
                     ELSE ops' = Append(ops, "Reset") /\ UNCHANGED << pc, dev, ctx, intf >>
              [] call = "dev.Close" ->
                   IF dev = "nil"
                     THEN pc' = "panicking" /\ UNCHANGED << ops, dev, ctx, intf >>
                     ELSE /\ dev' = "closed"
                          /\ ops' = Append(ops, "Close")
                          /\ UNCHANGED << pc, ctx, intf >>
              [] call = "ctx.Close" ->
                   /\ ctx' = "closed"
                   /\ ops' = Append(ops, "ctx.Close")
                   /\ UNCHANGED << pc, dev, intf >>
  /\ UNCHANGED << mode, args, fields, fullData, payload, sent, usage, fatalMsg, exit >>

\* main returns (status 0), or the panic ends the process (status 2)
Exit ==
  /\ pc \in {"returning", "panicking"}
  /\ defers = <<>>
  /\ exit' = IF pc = "returning" THEN 0 ELSE 2
  /\ pc' = "exited"
  /\ UNCHANGED << mode, args, fields, fullData, payload, usb, usage, fatalMsg >>

Next ==
  \/ Main
  \/ SetIntro
  \/ SetSolid
  \/ SetCycle
  \/ SetBreathe
  \/ SendCommand
  \/ OpenDevice
  \/ SetAutoDetach
  \/ DefaultInterface
  \/ Control
  \/ RunDeferred
  \/ Exit

Spec == Init /\ [][Next]_vars
\* ------------------------------------------------------------ what the claims speak of

\* the argument handed to parseRate and to parseBrightness, once the setter ran
RateArg == IF mode = "cycle" THEN args[1] ELSE args[2]

BrightnessArg == IF mode = "cycle" THEN args[2] ELSE args[3]

\* the setter of the mode has run up to parseRate (in breathe, the color passed)
RateParsed ==
  \/ mode = "cycle" /\ pc \notin {"main", "setCycle"}
  \/ mode = "breathe" /\ pc \notin {"main", "setBreathe"} /\ c # <<>>

\* the setter has run up to parseBrightness (the rate passed)
BrightnessParsed == RateParsed /\ rate # <<>>

\* the run ended in log.Fatalf with this message, before anything was built or sent
Rejected(msg) ==
  /\ pc = "exited" /\ exit = 1 /\ usage /\ fatalMsg = msg
  /\ data = <<>> /\ fullData = <<>> /\ payload = <<>>
  /\ ops = <<>> /\ sent = <<>>

\* s is exactly n lowercase hexadecimal digits
LowerHex(s, n) == Len(s) = n /\ \A i \in 1..n : s[i] \in Range(ldigits)

\* the value of a string of lowercase hexadecimal digits, digit by digit
RECURSIVE HexValue(_)
HexValue(s) ==
  IF s = <<>> THEN 0
  ELSE 16 * HexValue(SubSeq(s, 1, Len(s) - 1))
         + ((CHOOSE i \in 1..16 : ldigits[i] = s[Len(s)]) - 1)

\* arguments that are decimal integers in another spelling, with their value
Str100 == <<"1","0","0">>

Plus100 == <<"+","1","0","0">>

Zero100 == <<"0","1","0","0">>

Plus50 == <<"+","5","0">>

Zero50 == <<"0","5","0">>

\* the <rate> arguments that are no base-10 integer
RateNonNumeric == RateOddArgs \ {<<>>, Plus100, Zero100, <<"-","1","0","0">>}

\* the <brightness> arguments that are no base-10 integer
BrightnessNonNumeric == BrightnessOddArgs \ {<<>>, Plus50, Zero50, <<"-","0">>}

\* ------------------------------------------------------------ C5

\* C5: once parseRate has run: the empty argument gives 2710; the decimal form
\* of an integer n is accepted exactly when 100 <= n <= 60000 and then gives n
\* as 4 lowercase hex digits (100 -> 0064, 60000 -> ea60); integers outside the
\* range and non-numeric arguments end the run before any payload exists.
C5_RateValidation ==
  RateParsed =>
    /\ RateArg = <<>> => rate = <<"2","7","1","0">>
    /\ \A n \in RateInts :
         RateArg = Itoa(n) =>
           IF 100 <= n /\ n <= 60000
             THEN LowerHex(rate, 4) /\ HexValue(rate) = n
             ELSE rate = <<>> /\ Rejected("Rate argument is out of range")
    /\ RateArg \in {Str100, Plus100, Zero100} => rate = <<"0","0","6","4">>
    /\ RateArg = Itoa(60000) => rate = <<"e","a","6","0">>
    /\ RateArg = <<"-","1","0","0">> =>
         rate = <<>> /\ Rejected("Rate argument is out of range")
    /\ RateArg \in RateNonNumeric =>
         rate = <<>> /\ Rejected("Error parsing rate argument")

\* C5 witness: the upper limit 60000 was accepted, encoded as ea60 and sent
C5_Witness ==
  /\ mode = "cycle" /\ RateParsed
  /\ RateArg = Itoa(60000) /\ rate = <<"e","a","6","0">>
  /\ sent # <<>>

\* ------------------------------------------------------------ C6

C7_BrightnessZeroToHundred ==
  \A b \in BrightnessInts :
    (BrightnessParsed /\ BrightnessArg = Itoa(b) /\ 0 <= b /\ b <= 100) =>
      /\ fatalMsg # "Brightness argument is out of range"
      /\ LowerHex(brightness, 2) /\ HexValue(brightness) = b

\* ------------------------------------------------------------ C9

\* C9: once parseToggle has run: "on" gives 01 and "off" gives 02; every other
\* argument (empty, ON, On, "on ", ...) prints the usage and ends the run with a
\* fatal exit before anything is built or sent.
C9_ToggleValidation ==
  (mode = "intro" /\ pc \notin {"main", "setIntro"}) =>
    /\ args[1] = <<"o","n">> => toggle = <<"0","1">> /\ ~usage
    /\ args[1] = <<"o","f","f">> => toggle = <<"0","2">> /\ ~usage
    /\ args[1] \notin {<<"o","n">>, <<"o","f","f">>} =>
         toggle = <<>> /\ Rejected("Error parsing toggle argument")

\* C9 witness: the upper-case spelling ON was rejected
C9_Witness ==
  /\ mode = "intro" /\ args[1] = <<"O","N">>
  /\ Rejected("Error parsing toggle argument")
\* ------------------------------------------------------------ C1

Envelope(body) == <<"1","1","f","f","0","e">> \o body \o <<"0","0","0","0","0","0","0","0","0","0","0","0">>

\* C1: whenever sendCommand has built its hex string, the string is 11ff0e, the
\* 22 digits of the mode's body, and 000000000000; the body holds the opcode of
\* the mode and the fields at their places: solid 3b0001 RRGGBB 0000000000;
\* cycle 3b0002 0000000000 rate(4) brightness(2); breathe 3b0003 RRGGBB rate(4)
\* 00 brightness(2) 00; intro 5b0001 toggle(2) 00000000000000; each field has its
\* width in lowercase hex digits and its value is the argument's.
C1_PayloadLayout ==
  fullData # <<>> =>
    /\ Len(fullData) = 40
    /\ SubSeq(fullData, 1, 6) = <<"1","1","f","f","0","e">>
    /\ SubSeq(fullData, 29, 40) = <<"0","0","0","0","0","0","0","0","0","0","0","0">>
    /\ SubSeq(fullData, 7, 28) = data
    /\ mode = "solid" =>
         /\ SubSeq(data, 1, 6) = <<"3","b","0","0","0","1">>
         /\ SubSeq(data, 7, 12) = c /\ LowerHex(c, 6)
         /\ SubSeq(data, 13, 22) = <<"0","0","0","0","0","0","0","0","0","0">>
    /\ mode = "cycle" =>
         /\ SubSeq(data, 1, 6) = <<"3","b","0","0","0","2">>
         /\ SubSeq(data, 7, 16) = <<"0","0","0","0","0","0","0","0","0","0">>
         /\ SubSeq(data, 17, 20) = rate /\ LowerHex(rate, 4)
         /\ SubSeq(data, 21, 22) = brightness /\ LowerHex(brightness, 2)
    /\ mode = "breathe" =>
         /\ SubSeq(data, 1, 6) = <<"3","b","0","0","0","3">>
         /\ SubSeq(data, 7, 12) = c /\ LowerHex(c, 6)
         /\ SubSeq(data, 13, 16) = rate /\ LowerHex(rate, 4)
         /\ SubSeq(data, 17, 18) = <<"0","0">>
         /\ SubSeq(data, 19, 20) = brightness /\ LowerHex(brightness, 2)
         /\ SubSeq(data, 21, 22) = <<"0","0">>
    /\ mode = "intro" =>
         /\ SubSeq(data, 1, 6) = <<"5","b","0","0","0","1">>
         /\ SubSeq(data, 7, 8) = toggle /\ toggle \in {<<"0","1">>, <<"0","2">>}
         /\ SubSeq(data, 9, 22) = <<"0","0","0","0","0","0","0","0","0","0","0","0","0","0">>
    /\ mode \in {"cycle", "breathe"} =>
         /\ \A n \in RateInts : RateArg = Itoa(n) => HexValue(rate) = n
         /\ \A b \in BrightnessInts : BrightnessArg = Itoa(b) => HexValue(brightness) = b
    /\ (mode = "breathe" /\ args = << <<"f","0","0">>, Str100, <<"5","0">> >>) =>
         fullData = Envelope(<<"3","b","0","0","0","3","f","f","0","0","0","0","0","0","6","4","0","0","3","2","0","0">>)
    /\ (mode = "cycle" /\ args = << <<>>, <<>>, <<>> >>) =>
         fullData = Envelope(<<"3","b","0","0","0","2","0","0","0","0","0","0","0","0","0","0","2","7","1","0","6","4">>)
    /\ \A i \in 1..Len(sent) : sent[i].data = DecodeString(fullData)

\* C1 witness: breathe f00 100 50 was sent with body 3b0003ff00000064003200
C1_Witness ==
  /\ mode = "breathe" /\ args = << <<"f","0","0">>, Str100, <<"5","0">> >>
  /\ data = <<"3","b","0","0","0","3","f","f","0","0","0","0","0","0","6","4","0","0","3","2","0","0">>
  /\ sent # <<>>

\* ------------------------------------------------------------ C4

\* C4 (as claimed): solid ff0000 sends body 3b0001ff00000000000000 in the full
\* payload 11ff0e3b0001ff000000000000000000000000 of 38 hex digits, 19 bytes.
C4_SolidRedPayload38 ==
  (mode = "solid" /\ args[1] = <<"f","f","0","0","0","0">> /\ sent # <<>>) =>
    /\ data = <<"3","b","0","0","0","1","f","f","0","0","0","0","0","0","0","0","0","0","0","0","0","0">>
    /\ fullData = <<"1","1","f","f","0","e","3","b","0","0","0","1","f","f","0","0","0","0","0","0","0","0","0","0","0","0","0","0","0","0","0","0","0","0","0","0","0","0">>
    /\ Len(fullData) = 38
    /\ Len(sent[1].data) = 19

\* C4 (amended): solid ff0000 sends body 3b0001ff00000000000000 in the full
\* payload 11ff0e3b0001ff00000000000000000000000000 of 40 hex digits, 20 bytes:
\* the 6 digits of the head, the 22 of the body and the 12 of the tail.
C4_SolidRedPayload40 ==
  (mode = "solid" /\ args[1] = <<"f","f","0","0","0","0">> /\ sent # <<>>) =>
    /\ data = <<"3","b","0","0","0","1","f","f","0","0","0","0","0","0","0","0","0","0","0","0","0","0">>
    /\ fullData = <<"1","1","f","f","0","e","3","b","0","0","0","1","f","f","0","0","0","0","0","0","0","0","0","0","0","0","0","0","0","0","0","0","0","0","0","0","0","0","0","0">>
    /\ Len(fullData) = 40
    /\ Len(sent[1].data) = 20
    /\ sent[1].data[7] = 255 /\ sent[1].data[8] = 0 /\ sent[1].data[9] = 0

\* C4 witness: solid ff0000 was transferred
C4_Witness ==
  mode = "solid" /\ args[1] = <<"f","f","0","0","0","0">> /\ sent # <<>> /\ pc = "exited" /\ exit = 0
\* ------------------------------------------------------------ C8

\* the color argument without its one optional leading #
Unhash(a) == IF a # <<>> /\ a[1] = "#" THEN Tail(a) ELSE a

\* the argument rule of the claim: 3 or 6 hexadecimal digits after the optional #
ValidColorArg(a) ==
  /\ Len(Unhash(a)) \in {3, 6}
  /\ \A i \in 1..Len(Unhash(a)) : Unhash(a)[i] \in hexadecimalDigits

ToLower(ch) == ldigits[CHOOSE i \in 1..16 : ldigits[i] = ch \/ udigits[i] = ch]

\* 6 digits lowercased, or each of 3 digits lowercased and written twice
ExpectedColor(a) ==
  IF Len(Unhash(a)) = 6
    THEN [ i \in 1..6 |-> ToLower(Unhash(a)[i]) ]
    ELSE [ i \in 1..6 |-> ToLower(Unhash(a)[(i + 1) \div 2]) ]

ColorParsed ==
  /\ mode \in {"solid", "breathe"}
  /\ pc \notin {"main", "setSolid", "setBreathe"}

ColorRejected ==
  /\ c = <<>> /\ pc = "exited" /\ exit = 1 /\ usage
  /\ fatalMsg \in {"No color argument found", "Error parsing color argument"}
  /\ ops = <<>> /\ sent = <<>>

\* C8 (as claimed): once parseColor has run, the argument was accepted exactly
\* when it is 3 or 6 hexadecimal digits after one optional #, every other
\* argument was rejected, and an accepted one gave the 6 lowercase digits (3
\* digits each written twice, i.e. nibble n as byte n*17).
C8_ColorValidation ==
  ColorParsed =>
    IF ValidColorArg(args[1]) THEN c = ExpectedColor(args[1]) ELSE ColorRejected

\* The half of C8 the code keeps: an argument of 3 or 6 hexadecimal digits,
\* with or without #, is accepted and gives the 6 lowercase digits.
C8_ValidColorsEncoded ==
  (ColorParsed /\ ValidColorArg(args[1])) => c = ExpectedColor(args[1])

\* ------------------------------------------------------------ C2

ValidRateArg(a) ==
  \/ a \in {<<>>, Plus100, Zero100}
  \/ \E n \in RateInts : 100 <= n /\ n <= 60000 /\ a = Itoa(n)

ValidBrightnessArg(a) ==
  \/ a \in {<<>>, Plus50, Zero50}
  \/ \E b \in BrightnessInts : 1 <= b /\ b <= 100 /\ a = Itoa(b)

ValidToggleArg(a) == a \in {<<"o","n">>, <<"o","f","f">>}

\* the mode is unknown, or an argument of the mode breaks its rule
BadCommandLine ==
  CASE mode = "solid" -> ~ValidColorArg(args[1])
    [] mode = "cycle" -> ~ValidRateArg(args[1]) \/ ~ValidBrightnessArg(args[2])
    [] mode = "breathe" ->
         ~ValidColorArg(args[1]) \/ ~ValidRateArg(args[2]) \/ ~ValidBrightnessArg(args[3])
    [] mode = "intro" -> ~ValidToggleArg(args[1])
    [] OTHER -> TRUE

\* C2 (as claimed): in a run whose mode is unknown or one of whose arguments is
\* unparsable or out of range, no USB operation is ever performed and the run
\* ends in the fatal exit; so a transfer happens only when every argument is valid.
C2_NoPartialTransfer ==
  BadCommandLine =>
    /\ ops = <<>> /\ sent = <<>> /\ ctx = "none" /\ dev = "none" /\ intf = "none"
    /\ pc = "exited" => exit = 1

\* What the code keeps of C2: the USB library is entered only after every
\* parser of the mode has returned a value, and never after the usage was printed.
C2_ParsersPrecedeUSB ==
  ops # <<>> =>
    /\ ~usage
    /\ mode \in {"solid", "breathe"} => c # <<>>
    /\ mode \in {"cycle", "breathe"} => rate # <<>> /\ brightness # <<>>
    /\ mode = "intro" => toggle # <<>>
    /\ mode \in Modes

\* ------------------------------------------------------------ C3

\* C3 (as claimed): when the process has ended and the device had been opened,
\* the device was reset and closed, a claimed interface was released and the
\* USB context was closed, whatever the way the run ended: after a failure to
\* enable auto-detach, to claim the interface or to transfer, as after success.
C3_ReleasedOnEveryExit ==
  (pc = "exited" /\ dev \in {"open", "closed"}) =>
    /\ dev = "closed"
    /\ "Reset" \in Range(ops)
    /\ intf # "claimed"
    /\ ctx = "closed"

\* ------------------------------------------------------------ C10

\* the order of the steps of one invocation
StepOrder ==
  << "NewContext", "OpenDeviceWithVIDPID", "SetAutoDetach", "DefaultInterface",
     "Control", "done", "Reset", "Close", "ctx.Close" >>

StepRank(op) == CHOOSE i \in 1..Len(StepOrder) : StepOrder[i] = op

====
